---- MODULE Spec2Model ----
(***************************************************************************)
(* Metric-result aggregator of src/libmime/filter.c: symbol insertion,     *)
(* option sets, group caps, passthrough results and action selection.      *)
(*                                                                         *)
(* Doubles are modelled as exact integers (no rounding); NAN is a sentinel *)
(* integer outside the range any score can reach.  The guint priority of a *)
(* passthrough result keeps its wrap-around at a reduced width PrioBits.   *)
(***************************************************************************)
EXTENDS Integers, Sequences, FiniteSets, TLC

\* ------------------------------------------------------------------ bounds
MaxInserts == 3
MaxCalls == 3
MaxOpts == 3

\* --------------------------------------------------------------- constants
NAN == -100000
NULL == "NULL"
PrioBits == 4
RSPAMD_TASK_STAGE_IDEMPOTENT == 2

METRIC_ACTION_REJECT == 0
METRIC_ACTION_ADD_HEADER == 1
METRIC_ACTION_NOACTION == 2
METRIC_ACTION_MAX == 3
G_MAXDOUBLE == 99998
\* scores are whole numbers: none lies within DBL_EPSILON of 0
DBL_EPSILON == 0

INFINITY == 99999
isnan(x) == x = NAN
\* isfinite that lets the infinities through
isfinite_nan(x) == x # NAN
isfinite(x) == x # NAN /\ x # INFINITY /\ x # -INFINITY
fabs(x) == IF x < 0 THEN -x ELSE x
signbit(x) == x < 0
MIN(a, b) == IF a < b THEN a ELSE b

\* ------------------------------------------------------ configuration view
SymNames == {"A", "B", "U"}
Opts == {"x", "y"}
Weights == {-1, 1, 2}
InsertFlags == SUBSET {"SINGLE", "ENFORCE"}
\* the weights of the runs that study non-finite weights
NonFinite == {NAN, INFINITY, -INFINITY}
SanitizeWeights == NonFinite \cup {0, 2}
\* the weights of the runs that study the cap of a group
CapWeights == {-1, 2}

\* task->cfg->symbols: name -> definition ("U" has none)
cfg_symbols ==
  [A |-> [weight |-> 3, groups |-> <<"g1", "g2">>, nshots |-> 2, flags |-> {}],
   B |-> [weight |-> 2, groups |-> <<"g1">>, nshots |-> 2, flags |-> {"ONEPARAM"}]]

\* gr->max_score of every group
cfg_groups == [g1 |-> [max_score |-> 7], g2 |-> [max_score |-> 4]]

cfg_default_max_shots == 2

\* the configurations the model is run with: cfg->grow_factor and task->settings
GrowFactors == {1, 2}
SettingsSet == {<<>>, [U |-> 2]}

VARIABLES
  score,            \* metric_res->score
  grow_factor,      \* metric_res->grow_factor
  symbols,          \* metric_res->symbols: name -> rspamd_symbol_result
  sym_groups,       \* metric_res->sym_groups: group -> score
  positive_score, negative_score, npositive, nnegative,
  passthrough_result, \* metric_res->passthrough_result, head first
  actions_limits,   \* metric_res->actions_limits
  processed_stages, \* task->processed_stages
  cfg_grow_factor,  \* task->cfg->grow_factor
  settings,         \* task->settings
  frequency,        \* calls of rspamd_symbols_cache_inc_frequency per symbol
  last,             \* the last call made and what it returned
  hist              \* history of the calls, for stating the claims

vars == <<score, grow_factor, symbols, sym_groups, positive_score, negative_score,
          npositive, nnegative, passthrough_result, actions_limits,
          processed_stages, cfg_grow_factor, settings, frequency, last, hist>>

metric_vars == <<score, grow_factor, symbols, sym_groups, positive_score,
                 negative_score, npositive, nnegative>>

BitSet(mask, bit) == (mask \div bit) % 2 = 1

HasDef(symbol) == symbol \in DOMAIN cfg_symbols

\* ---------------------------------------------------------- option storage
\* memset (s, 0, sizeof (*s)) of a fresh rspamd_symbol_result
EmptySymbolResult ==
  [score |-> 0, nshots |-> 0, has_options |-> FALSE, options |-> {}, opts_head |-> <<>>]

\* s->sym && (s->sym->flags & RSPAMD_SYMBOL_FLAG_ONEPARAM)
IsOneParam(symbol) == HasDef(symbol) /\ "ONEPARAM" \in cfg_symbols[symbol].flags

\* rspamd_task_add_result_option (task, s, val) for a non-NULL s that is the
\* result of `symbol`: the new *s and the value returned
rspamd_task_add_result_option(symbol, s, val) ==
  IF val # NULL
  THEN IF s.has_options /\ ~IsOneParam(symbol)
          /\ Cardinality(s.options) < cfg_default_max_shots
       THEN IF val \notin s.options
            THEN [s |-> [s EXCEPT !.options = @ \cup {val},
                                  !.opts_head = Append(@, val)],
                  ret |-> TRUE]
            ELSE [s |-> s, ret |-> FALSE]
       ELSE \* kh_init: a fresh option hash, the list keeps its entries
            [s |-> [s EXCEPT !.has_options = TRUE,
                             !.options = {val},
                             !.opts_head = Append(@, val)],
             ret |-> TRUE]
  ELSE [s |-> s, ret |-> TRUE]

\* ------------------------------------------------------------ group clamping
\* rspamd_check_group_score that forgets to cut w down to the headroom
rspamd_check_group_score_noclip(gr, group_score, w) ==
  IF cfg_groups[gr].max_score > 0 /\ w > 0
  THEN IF group_score >= cfg_groups[gr].max_score /\ w > 0
       THEN NAN
       ELSE w
  ELSE w

\* rspamd_check_group_score (task, symbol, gr, group_score, w), gr and
\* group_score never NULL here
rspamd_check_group_score(gr, group_score, w) ==
  IF cfg_groups[gr].max_score > 0 /\ w > 0
  THEN IF group_score >= cfg_groups[gr].max_score /\ w > 0
       THEN NAN
       ELSE IF group_score + w > cfg_groups[gr].max_score
            THEN cfg_groups[gr].max_score - group_score
            ELSE w
  ELSE w

\* PTR_ARRAY_FOREACH (sdef->groups, i, gr) { ... } of both branches: from the
\* i-th group on, with the group scores gs and the contribution diff so far
RECURSIVE CheckGroupLimits(_, _, _, _)
CheckGroupLimits(groups, i, gs, diff) ==
  IF i > Len(groups)
  THEN [gs |-> gs, diff |-> diff]
  ELSE LET gr == groups[i]
           cur_diff == rspamd_check_group_score(gr, gs[gr], diff)
       IN IF isnan(cur_diff)
          THEN [gs |-> gs, diff |-> NAN]
          ELSE CheckGroupLimits(groups, i + 1,
                                [gs EXCEPT ![gr] = @ + cur_diff],
                                IF cur_diff < diff THEN cur_diff ELSE diff)

\* kh_put of every group of sdef that has no score yet, with value 0
EnsureGroups(symbol, gs) ==
  IF HasDef(symbol)
  THEN LET new == {cfg_symbols[symbol].groups[i] :
                     i \in 1..Len(cfg_symbols[symbol].groups)} \ DOMAIN gs
       IN [g \in DOMAIN gs \cup new |-> IF g \in DOMAIN gs THEN gs[g] ELSE 0]
  ELSE gs

\* "Handle grow factor": the amplified contribution and next_gf
HandleGrowFactor(gf, cfg_gf, x) ==
  IF gf # 0 /\ x > 0
  THEN [x |-> x * gf, next_gf |-> 1 * cfg_gf]
  ELSE IF x > 0
       THEN [x |-> x, next_gf |-> cfg_gf]
       ELSE [x |-> x, next_gf |-> 1]

\* BaseScore that enforces the static weight 1.0 without looking at the flag
BaseScore_enforced(symbol, weight, flags, sett) ==
  LET w == IF ~isfinite(weight) THEN 0 ELSE weight
      fs == IF ~HasDef(symbol)
            THEN 1 * w
            ELSE cfg_symbols[symbol].weight * w
  IN IF symbol \in DOMAIN sett THEN sett[symbol] * w ELSE fs

\* final_score before the branches: definition weight, ENFORCE, settings
BaseScore(symbol, weight, flags, sett) ==
  LET w == IF ~isfinite(weight) THEN 0 ELSE weight
      fs == IF ~HasDef(symbol)
            THEN IF "ENFORCE" \in flags THEN 1 * w ELSE 0
            ELSE cfg_symbols[symbol].weight * w
  IN IF symbol \in DOMAIN sett THEN sett[symbol] * w ELSE fs

\* max_shots and the promotion to single of the repeat-hit branch
IsSingle(symbol, flags, nshots) ==
  LET single == "SINGLE" \in flags
      max_shots == IF single THEN 1
                   ELSE IF HasDef(symbol) THEN cfg_symbols[symbol].nshots
                        ELSE cfg_default_max_shots
  IN single \/ (max_shots > 0 /\ nshots >= max_shots)

\* "Now check for the duplicate options" of the repeat-hit branch
RepeatOptions(symbol, s, opt) ==
  IF opt # NULL /\ s.has_options
  THEN IF opt \notin s.options
       THEN rspamd_task_add_result_option(symbol, s, opt).s
       ELSE [s EXCEPT !.nshots = @ + 1]
  ELSE rspamd_task_add_result_option(symbol, [s EXCEPT !.nshots = @ + 1], opt).s

\* "Adjust diff" without the comparison of the signs
AdjustDiff_nosign(single, s_score, final_score) ==
  IF ~single
  THEN final_score
  ELSE IF fabs(s_score) < fabs(final_score)
       THEN final_score - s_score
       ELSE 0

\* "Adjust diff"
AdjustDiff(single, s_score, final_score) ==
  IF ~single
  THEN final_score
  ELSE IF fabs(s_score) < fabs(final_score)
          /\ signbit(s_score) = signbit(final_score)
       THEN final_score - s_score
       ELSE 0

\* s->score that adds the score proposed, not the contribution applied
RepeatSymbolScore_proposed(single, s_score, final_score, diff) ==
  IF single THEN final_score ELSE s_score + final_score

\* s->score after a contribution that was not dropped
RepeatSymbolScore(single, s_score, final_score, diff) ==
  IF single THEN final_score ELSE s_score + diff

\* The metric result as a record, to pass it through insert_metric_result
MetricRes ==
  [score |-> score, grow_factor |-> grow_factor, symbols |-> symbols,
   sym_groups |-> sym_groups, positive_score |-> positive_score,
   negative_score |-> negative_score, npositive |-> npositive,
   nnegative |-> nnegative]

Put(f, k, v) == [x \in DOMAIN f \cup {k} |-> IF x = k THEN v ELSE f[x]]

\* repeat-hit branch of insert_metric_result
RepeatHit(m, symbol, final_score, opt, flags, cfg_gf) ==
  LET s0 == m.symbols[symbol]
      single == IsSingle(symbol, flags, s0.nshots)
      s1 == RepeatOptions(symbol, s0, opt)
      diff0 == AdjustDiff(single, s1.score, final_score)
      g == HandleGrowFactor(m.grow_factor, cfg_gf, diff0)
      c == IF HasDef(symbol)
           THEN CheckGroupLimits(cfg_symbols[symbol].groups, 1, m.sym_groups, g.x)
           ELSE [gs |-> m.sym_groups, diff |-> g.x]
  IN IF diff0 = 0
     THEN [m EXCEPT !.symbols = Put(@, symbol, s1)]
     ELSE IF isnan(c.diff)
          THEN [m EXCEPT !.symbols = Put(@, symbol, s1), !.sym_groups = c.gs]
          ELSE [m EXCEPT !.score = @ + c.diff,
                         !.grow_factor = g.next_gf,
                         !.sym_groups = c.gs,
                         !.symbols = Put(@, symbol,
                            [s1 EXCEPT !.score =
                               RepeatSymbolScore(single, @, final_score, c.diff)])]

\* the ledgers with the negative amount added as it is, without fabs
UpdateLedgers_signed(m, final_score) ==
  [m EXCEPT !.npositive = IF final_score > DBL_EPSILON THEN @ + 1 ELSE @,
            !.positive_score = IF final_score > DBL_EPSILON THEN @ + final_score ELSE @,
            !.nnegative = IF final_score < -DBL_EPSILON THEN @ + 1 ELSE @,
            !.negative_score = IF final_score < -DBL_EPSILON THEN @ + final_score ELSE @]

\* "if (final_score > epsilon) ... else if (final_score < -epsilon) ..."
UpdateLedgers(m, final_score) ==
  [m EXCEPT !.npositive = IF final_score > DBL_EPSILON THEN @ + 1 ELSE @,
            !.positive_score = IF final_score > DBL_EPSILON THEN @ + final_score ELSE @,
            !.nnegative = IF final_score < -DBL_EPSILON THEN @ + 1 ELSE @,
            !.negative_score = IF final_score < -DBL_EPSILON THEN @ + fabs(final_score) ELSE @]

\* first-hit branch of insert_metric_result
FirstHit(m, symbol, final_score0, opt, cfg_gf) ==
  LET g == HandleGrowFactor(m.grow_factor, cfg_gf, final_score0)
      c == IF HasDef(symbol)
           THEN CheckGroupLimits(cfg_symbols[symbol].groups, 1, m.sym_groups, g.x)
           ELSE [gs |-> m.sym_groups, diff |-> g.x]
      final_score == c.diff
      s1 == [EmptySymbolResult EXCEPT !.nshots = 1,
               !.score = IF isnan(final_score) THEN 0 ELSE final_score]
      s2 == rspamd_task_add_result_option(symbol, s1, opt).s
  IN IF isnan(final_score)
     THEN [m EXCEPT !.symbols = Put(@, symbol, s2), !.sym_groups = c.gs]
     ELSE UpdateLedgers([m EXCEPT !.score = @ + final_score,
                                  !.grow_factor = g.next_gf,
                                  !.sym_groups = c.gs,
                                  !.symbols = Put(@, symbol, s2)],
                        final_score)

\* insert_metric_result (task, symbol, weight, opt, flags): the new metric result
insert_metric_result(m, symbol, weight, opt, flags, cfg_gf, sett) ==
  LET final_score == BaseScore(symbol, weight, flags, sett)
      m1 == [m EXCEPT !.sym_groups = EnsureGroups(symbol, @)]
  IN IF symbol \in DOMAIN m1.symbols
     THEN RepeatHit(m1, symbol, final_score, opt, flags, cfg_gf)
     ELSE FirstHit(m1, symbol, final_score, opt, cfg_gf)

\* ------------------------------------------------------------------ history
\* is this insert handled additively (first hit, or repeat hit not single)
\* with a contribution that reaches the total score
IsAdditive(m, m2, symbol, flags) ==
  /\ symbol \notin DOMAIN m.symbols
       \/ ~IsSingle(symbol, flags, m.symbols[symbol].nshots)
  /\ m2.score # m.score

\* does this insert take "s->score = final_score" of the single path
IsReplacement(m, symbol, weight, opt, flags, cfg_gf, sett) ==
  /\ symbol \in DOMAIN m.symbols
  /\ IsSingle(symbol, flags, m.symbols[symbol].nshots)
  /\ LET final_score == BaseScore(symbol, weight, flags, sett)
         diff0 == AdjustDiff(TRUE, m.symbols[symbol].score, final_score)
         g == HandleGrowFactor(m.grow_factor, cfg_gf, diff0)
         c == IF HasDef(symbol)
              THEN CheckGroupLimits(cfg_symbols[symbol].groups, 1,
                                    EnsureGroups(symbol, m.sym_groups), g.x)
              ELSE [gs |-> m.sym_groups, diff |-> g.x]
     IN diff0 # 0 /\ ~isnan(c.diff)

\* ------------------------------------------------------------------ actions
\* "cannot insert symbol on idempotent phase": return NULL
RejectInsert ==
  /\ last' = [op |-> "insert", ret |-> NULL]
  /\ UNCHANGED <<metric_vars, passthrough_result, actions_limits,
                 processed_stages, cfg_grow_factor, settings, frequency, hist>>

\* "Insert symbol to default metric" and "Process cache item", for a
\* configuration that has a symbols cache (task->cfg->cache != NULL)
InsertAndCount(symbol, weight, opt, flags) ==
  /\ \E m \in {insert_metric_result(MetricRes, symbol, weight, opt, flags,
                                    cfg_grow_factor, settings)} :
       /\ score' = m.score
       /\ grow_factor' = m.grow_factor
       /\ symbols' = m.symbols
       /\ sym_groups' = m.sym_groups
       /\ positive_score' = m.positive_score
       /\ negative_score' = m.negative_score
       /\ npositive' = m.npositive
       /\ nnegative' = m.nnegative
       /\ hist' = [hist EXCEPT
            !.ninserts = @ + 1,
            !.additive[symbol] =
               IF IsAdditive(MetricRes, m, symbol, flags) THEN @ + 1 ELSE @,
            !.replaced = @ \/ IsReplacement(MetricRes, symbol, weight, opt, flags,
                                            cfg_grow_factor, settings),
            !.firstsum = IF symbol \in DOMAIN symbols THEN @
                         ELSE @ + m.symbols[symbol].score,
            !.sanitized = @ \/ ~isfinite(weight)]
  /\ frequency' = [frequency EXCEPT ![symbol] = @ + 1]
  /\ last' = [op |-> "insert", ret |-> symbol]
  /\ UNCHANGED <<passthrough_result, actions_limits, processed_stages,
                 cfg_grow_factor, settings>>

\* rspamd_task_insert_result_full that tests the bit of the idempotent stage
\* itself, not of the stage before it
rspamd_task_insert_result_full_bit(symbol, weight, opt, flags) ==
  IF BitSet(processed_stages, RSPAMD_TASK_STAGE_IDEMPOTENT)
  THEN RejectInsert
  ELSE InsertAndCount(symbol, weight, opt, flags)

\* rspamd_task_insert_result_full (task, symbol, weight, opt, flags)
rspamd_task_insert_result_full(symbol, weight, opt, flags) ==
  IF BitSet(processed_stages, RSPAMD_TASK_STAGE_IDEMPOTENT \div 2)
  THEN RejectInsert
  ELSE InsertAndCount(symbol, weight, opt, flags)

InIdempotent == BitSet(processed_stages, RSPAMD_TASK_STAGE_IDEMPOTENT \div 2)

\* a symbol check inserts its result: any symbol, weight, option and flags
Insert ==
  \E symbol \in SymNames, weight \in Weights, opt \in {NULL, "x"},
     flags \in InsertFlags :
       /\ InIdempotent \/ hist.ninserts < MaxInserts
       /\ rspamd_task_insert_result_full(symbol, weight, opt, flags)

\* the inserts of the runs that study the option sets
InsertOpt ==
  \E symbol \in SymNames, opt \in Opts \cup {NULL} :
       /\ InIdempotent \/ hist.ninserts < MaxInserts
       /\ rspamd_task_insert_result_full(symbol, 1, opt, {})

\* the inserts of the runs that study non-finite weights
InsertWeight ==
  \E symbol \in SymNames, weight \in SanitizeWeights, opt \in {NULL, "x"},
     flags \in InsertFlags :
       /\ InIdempotent \/ hist.ninserts < MaxInserts
       /\ rspamd_task_insert_result_full(symbol, weight, opt, flags)

\* the inserts of the runs that study the cap of a group: no flags
InsertCap ==
  \E symbol \in SymNames, weight \in CapWeights, opt \in Opts \cup {NULL} :
       /\ InIdempotent \/ hist.ninserts < MaxInserts
       /\ rspamd_task_insert_result_full(symbol, weight, opt, {})

\* the inserts of the runs that study stages, passthroughs and actions
InsertPlain ==
  \E symbol \in SymNames, weight \in Weights, flags \in InsertFlags :
       /\ InIdempotent \/ hist.ninserts + Len(passthrough_result) < MaxCalls
       /\ rspamd_task_insert_result_full(symbol, weight, NULL, flags)

\* a direct call of rspamd_task_add_result_option on a symbol result
AddOption ==
  \E symbol \in DOMAIN symbols, val \in Opts \cup {NULL} :
    /\ Len(symbols[symbol].opts_head) < MaxOpts
    /\ LET r == rspamd_task_add_result_option(symbol, symbols[symbol], val)
       IN /\ symbols' = [symbols EXCEPT ![symbol] = r.s]
          /\ last' = [op |-> "add_option", ret |-> r.ret]
    /\ UNCHANGED <<score, grow_factor, sym_groups, positive_score, negative_score,
                   npositive, nnegative, passthrough_result, actions_limits,
                   processed_stages, cfg_grow_factor, settings, frequency, hist>>

\* the task finishes its next processing stage: the stages are processed in
\* order, each sets its bit in processed_stages
AdvanceStage ==
  /\ processed_stages < 2 * RSPAMD_TASK_STAGE_IDEMPOTENT - 1
  /\ processed_stages' = 2 * processed_stages + 1
  /\ last' = [op |-> "stage", ret |-> NULL]
  /\ UNCHANGED <<metric_vars, passthrough_result, actions_limits,
                 cfg_grow_factor, settings, frequency, hist>>

\* ------------------------------------------------------------- passthrough
Pow2(n) == IF n = 0 THEN 1 ELSE IF n = 1 THEN 2 ELSE IF n = 2 THEN 4
           ELSE IF n = 3 THEN 8 ELSE IF n = 4 THEN 16 ELSE 32

\* the conversion of a guint to int (two's complement, PrioBits wide)
ToInt(u) == IF u >= Pow2(PrioBits - 1) THEN u - Pow2(PrioBits) ELSE u

\* rspamd_pr_sort (pra, prb): prb->priority - pra->priority, computed in
\* guint and returned as int
rspamd_pr_sort(pra, prb) ==
  ToInt((prb.priority - pra.priority + Pow2(PrioBits)) % Pow2(PrioBits))

\* the merge of two adjacent runs in DL_SORT: p wins when cmp (p, q) <= 0
RECURSIVE MergeRuns(_, _)
MergeRuns(p, q) ==
  IF p = <<>> THEN q
  ELSE IF q = <<>> THEN p
  ELSE IF rspamd_pr_sort(p[1], q[1]) <= 0
       THEN <<p[1]>> \o MergeRuns(Tail(p), q)
       ELSE <<q[1]>> \o MergeRuns(p, Tail(q))

\* one pass of DL_SORT over the list, merging runs of length insize pairwise
RECURSIVE MergePass(_, _)
MergePass(list, insize) ==
  IF Len(list) <= insize THEN list
  ELSE LET n == IF Len(list) < 2 * insize THEN Len(list) ELSE 2 * insize
       IN MergeRuns(SubSeq(list, 1, insize), SubSeq(list, insize + 1, n))
            \o MergePass(SubSeq(list, n + 1, Len(list)), insize)

\* DL_SORT (list, rspamd_pr_sort): bottom-up merge sort, insize = 1, 2, 4, ...
RECURSIVE DL_SORT(_, _)
DL_SORT(list, insize) ==
  IF Len(list) <= 2 * insize
  THEN MergePass(list, insize)
  ELSE DL_SORT(MergePass(list, insize), 2 * insize)

\* rspamd_add_passthrough_result (task, action, priority, target_score, ...)
rspamd_add_passthrough_result(action, priority, target_score) ==
  LET pr == [action |-> action, priority |-> priority, target_score |-> target_score]
  IN /\ passthrough_result' = DL_SORT(Append(passthrough_result, pr), 1)
     /\ last' = [op |-> "add_passthrough", ret |-> NULL]
     /\ UNCHANGED <<metric_vars, actions_limits, processed_stages,
                    cfg_grow_factor, settings, frequency, hist>>

PassActions == {METRIC_ACTION_REJECT, METRIC_ACTION_NOACTION}
PassPriorities == {1, 2, Pow2(PrioBits - 1) + 1}
PassTargets == {NAN, 1}

AddPassthrough ==
  \E action \in PassActions, priority \in PassPriorities, target_score \in PassTargets :
    /\ hist.ninserts + Len(passthrough_result) < MaxCalls
    /\ rspamd_add_passthrough_result(action, priority, target_score)

\* ----------------------------------------------------------- action selector
NoSelection == -1

\* the loop without "sc > max_score": the last slot that qualifies wins
RECURSIVE SelectAction_last(_, _, _, _, _)
SelectAction_last(limits, sc_total, i, selected_action, max_score) ==
  IF i >= METRIC_ACTION_MAX
  THEN selected_action
  ELSE LET sc == limits[i]
       IN IF isnan(sc)
          THEN SelectAction_last(limits, sc_total, i + 1, selected_action, max_score)
          ELSE IF sc_total >= sc
               THEN SelectAction_last(limits, sc_total, i + 1, i, sc)
               ELSE SelectAction_last(limits, sc_total, i + 1, selected_action,
                                      max_score)

\* the loop with "sc >= max_score": among equal thresholds the last slot wins
RECURSIVE SelectAction_geq(_, _, _, _, _)
SelectAction_geq(limits, sc_total, i, selected_action, max_score) ==
  IF i >= METRIC_ACTION_MAX
  THEN selected_action
  ELSE LET sc == limits[i]
       IN IF isnan(sc)
          THEN SelectAction_geq(limits, sc_total, i + 1, selected_action, max_score)
          ELSE IF sc_total >= sc /\ sc >= max_score
               THEN SelectAction_geq(limits, sc_total, i + 1, i, sc)
               ELSE SelectAction_geq(limits, sc_total, i + 1, selected_action,
                                     max_score)

\* the for loop of rspamd_check_action_metric from slot i on: the index of
\* selected_action (NoSelection for NULL)
RECURSIVE SelectAction(_, _, _, _, _)
SelectAction(limits, sc_total, i, selected_action, max_score) ==
  IF i >= METRIC_ACTION_MAX
  THEN selected_action
  ELSE LET sc == limits[i]
       IN IF isnan(sc)
          THEN SelectAction(limits, sc_total, i + 1, selected_action, max_score)
          ELSE IF sc_total >= sc /\ sc > max_score
               THEN SelectAction(limits, sc_total, i + 1, i, sc)
               ELSE SelectAction(limits, sc_total, i + 1, selected_action, max_score)

\* rspamd_check_action_metric that sets the target score of a no-action
\* passthrough without the MIN
rspamd_check_action_metric_nomin(limits, sc_total, pt) ==
  IF pt = <<>>
  THEN LET selected_action ==
             SelectAction(limits, sc_total, METRIC_ACTION_REJECT, NoSelection,
                          -(G_MAXDOUBLE))
       IN [action |-> IF selected_action # NoSelection
                      THEN selected_action ELSE METRIC_ACTION_NOACTION,
           score |-> sc_total]
  ELSE LET pr == pt[1]
           sc == pr.target_score
       IN [action |-> pr.action,
           score |-> IF ~isnan(sc) THEN sc ELSE sc_total]

\* rspamd_check_action_metric that adds the target score of a no-action
\* passthrough to the score
rspamd_check_action_metric_add(limits, sc_total, pt) ==
  IF pt = <<>>
  THEN LET selected_action ==
             SelectAction(limits, sc_total, METRIC_ACTION_REJECT, NoSelection,
                          -(G_MAXDOUBLE))
       IN [action |-> IF selected_action # NoSelection
                      THEN selected_action ELSE METRIC_ACTION_NOACTION,
           score |-> sc_total]
  ELSE LET pr == pt[1]
           sc == pr.target_score
       IN [action |-> pr.action,
           score |-> IF ~isnan(sc)
                     THEN IF pr.action = METRIC_ACTION_NOACTION
                          THEN sc + sc_total
                          ELSE sc
                     ELSE sc_total]

\* rspamd_check_action_metric (task, mres): the action returned and mres->score
\* afterwards, for the passthrough list pt; cfg->actions[i].action is i
rspamd_check_action_metric(limits, sc_total, pt) ==
  IF pt = <<>>
  THEN LET selected_action ==
             SelectAction(limits, sc_total, METRIC_ACTION_REJECT, NoSelection,
                          -(G_MAXDOUBLE))
       IN [action |-> IF selected_action # NoSelection
                      THEN selected_action ELSE METRIC_ACTION_NOACTION,
           score |-> sc_total]
  ELSE LET pr == pt[1]
           sc == pr.target_score
       IN [action |-> pr.action,
           score |-> IF ~isnan(sc)
                     THEN IF pr.action = METRIC_ACTION_NOACTION
                          THEN MIN(sc, sc_total)
                          ELSE sc
                     ELSE sc_total]

CheckAction ==
  LET r == rspamd_check_action_metric(actions_limits, score, passthrough_result)
  IN /\ score' = r.score
     /\ last' = [op |-> "check_action", ret |-> r.action]
     /\ hist' = [hist EXCEPT !.overridden = @ \/ r.score # score,
                         !.rechecked = @ \/ last.op = "check_action"]
     /\ UNCHANGED <<grow_factor, symbols, sym_groups, positive_score, negative_score,
                    npositive, nnegative, passthrough_result, actions_limits,
                    processed_stages, cfg_grow_factor, settings, frequency>>

\* ----------------------------------------------------------- specification
NoHistory ==
  [ninserts |-> 0, additive |-> [s \in SymNames |-> 0],
   replaced |-> FALSE, overridden |-> FALSE, firstsum |-> 0,
   sanitized |-> FALSE, rechecked |-> FALSE]

\* rspamd_create_metric_result with the thresholds limits
InitWith(limits) ==
  /\ score = 0
  /\ grow_factor = 0
  /\ symbols = [s \in {} |-> EmptySymbolResult]
  /\ sym_groups = [g \in {} |-> 0]
  /\ positive_score = 0
  /\ negative_score = 0
  /\ npositive = 0
  /\ nnegative = 0
  /\ passthrough_result = <<>>
  /\ actions_limits = limits
  /\ processed_stages = 0
  /\ frequency = [s \in SymNames |-> 0]
  /\ last = [op |-> "create", ret |-> NULL]
  /\ hist = NoHistory

\* the thresholds of the configuration: cfg->actions[i].score
DefaultLimits ==
  [i \in 0..(METRIC_ACTION_MAX - 1) |->
     IF i = METRIC_ACTION_REJECT THEN 10
     ELSE IF i = METRIC_ACTION_ADD_HEADER THEN 5 ELSE NAN]

LimitValues == {NAN, 0, 5}

\* The scoring aggregator: inserts under every configuration
Init ==
  /\ InitWith(DefaultLimits)
  /\ cfg_grow_factor \in GrowFactors
  /\ settings \in SettingsSet

Next == Insert

Spec == Init /\ [][Next]_vars

\* The option sets: inserts that carry options, and direct add_option calls
InitOptions ==
  /\ InitWith(DefaultLimits)
  /\ cfg_grow_factor = 1
  /\ settings \in SettingsSet

NextOptions == InsertOpt \/ AddOption

SpecOptions == InitOptions /\ [][NextOptions]_vars

\* The phases of the task: inserts before and after the idempotent stage
InitPhase ==
  /\ InitWith(DefaultLimits)
  /\ cfg_grow_factor = 1
  /\ settings = <<>>

NextPhase == InsertPlain \/ AdvanceStage

SpecPhase == InitPhase /\ [][NextPhase]_vars

\* The action selector by thresholds, under every table of thresholds
InitAction ==
  /\ \E limits \in [0..(METRIC_ACTION_MAX - 1) -> LimitValues] : InitWith(limits)
  /\ cfg_grow_factor = 1
  /\ settings = <<>>

NextAction == InsertPlain \/ CheckAction

SpecAction == InitAction /\ [][NextAction]_vars

\* The passthrough channel
InitPass ==
  /\ InitWith(DefaultLimits)
  /\ cfg_grow_factor = 2
  /\ settings = <<>>

NextPass == InsertPlain \/ AddPassthrough \/ CheckAction

SpecPass == InitPass /\ [][NextPass]_vars

\* Non-finite weights
NextWeights == InsertWeight

SpecWeights == Init /\ [][NextWeights]_vars

\* The cap of a group
NextCap == InsertCap

SpecCap == InitPhase /\ [][NextCap]_vars

\* Single-shot inserts
NextSingle == InsertPlain

SpecSingle == Init /\ [][NextSingle]_vars

\* ================================================================== claims
RECURSIVE SumNshots(_)
SumNshots(S) ==
  IF S = {} THEN 0
  ELSE LET x == CHOOSE x \in S : TRUE IN symbols[x].nshots + SumNshots(S \ {x})

RECURSIVE SumScores(_)
SumScores(S) ==
  IF S = {} THEN 0
  ELSE LET x == CHOOSE x \in S : TRUE IN symbols[x].score + SumScores(S \ {x})

NoDuplicates(list) ==
  \A i, j \in 1..Len(list) : i # j => list[i] # list[j]

\* the multiplicity cap of a symbol inserted without the SINGLE flag
MaxShots(symbol) ==
  IF HasDef(symbol) THEN cfg_symbols[symbol].nshots ELSE cfg_default_max_shots

\* C1: the sum of nshots over all entries of symbols equals the number of
\* insert calls that passed the phase guard.
C1_NshotsCountsInserts == SumNshots(DOMAIN symbols) = hist.ninserts

\* C2: for every group G with max_score > 0, in every reachable state,
\* group_scores[G] <= G.max_score.
C2_GroupCap ==
  \A G \in DOMAIN sym_groups :
    cfg_groups[G].max_score > 0 => sym_groups[G] <= cfg_groups[G].max_score

\* a repeat hit of the symbol of two groups has filled the smaller group to
\* its cap while the grow factor amplifies
C2_Witness ==
  /\ "A" \in DOMAIN symbols
  /\ symbols["A"].nshots >= 2
  /\ grow_factor = 2
  /\ sym_groups["g2"] = cfg_groups["g2"].max_score
  /\ sym_groups["g1"] < cfg_groups["g1"].max_score

\* the task has entered the idempotent phase: every stage before the
\* idempotent one is processed
EnteredIdempotent == processed_stages >= RSPAMD_TASK_STAGE_IDEMPOTENT \div 2

\* C3: once the task has entered the idempotent phase, every insert call
\* returns NULL, leaves score, symbols, group scores, grow_factor and the
\* positive/negative ledgers unchanged and does not call inc_frequency.
C3_IdempotentInsertRejected ==
  [][(EnteredIdempotent /\ last'.op = "insert")
       => (last'.ret = NULL /\ UNCHANGED <<metric_vars, frequency>>)]_vars

\* an insert was rejected on a task that holds results
C3_Witness ==
  /\ EnteredIdempotent
  /\ last.op = "insert"
  /\ last.ret = NULL
  /\ DOMAIN symbols # {}
  /\ score # 0

\* C4: a symbol whose multiplicity cap is N > 0 contributes its score
\* additively in at most N inserts, every later insert is handled single-shot,
\* whatever options the inserts carry.
C4_AdditiveAtMostCap ==
  \A symbol \in SymNames :
    MaxShots(symbol) > 0 => hist.additive[symbol] <= MaxShots(symbol)

\* C5: for every symbol the option list contains no option twice and its
\* length equals the cardinality of the option set.
C5_OptionListUnique ==
  \A symbol \in DOMAIN symbols :
    /\ NoDuplicates(symbols[symbol].opts_head)
    /\ Len(symbols[symbol].opts_head) = Cardinality(symbols[symbol].options)

\* C6: after any sequence of add_passthrough calls with priorities of the
\* whole unsigned range the passthrough list is sorted by priority descending,
\* so its head has the maximal priority of all entries added.
C6_PassthroughSorted ==
  \A i, j \in 1..Len(passthrough_result) :
    i < j => passthrough_result[i].priority >= passthrough_result[j].priority

\* the slots that qualify at the score sc
Qualifying(sc) ==
  {i \in 0..(METRIC_ACTION_MAX - 1) :
     ~isnan(actions_limits[i]) /\ sc >= actions_limits[i]}

\* the threshold of the slot check_action selects at the score sc, below
\* every threshold when it selects none
SelectedThreshold(sc) ==
  LET i == SelectAction(actions_limits, sc, METRIC_ACTION_REJECT, NoSelection,
                        -(G_MAXDOUBLE))
  IN IF i = NoSelection THEN -(G_MAXDOUBLE) ELSE actions_limits[i]

ScoreRange == (-4)..12

\* C7: with no passthrough, check_action returns the action of a slot with
\* the largest non-NaN threshold t such that score >= t, no-action when no
\* slot qualifies, and raising the score never selects a smaller threshold.
C7_LargestThreshold ==
  (last.op = "check_action" /\ passthrough_result = <<>>) =>
    /\ IF Qualifying(score) = {}
       THEN last.ret = METRIC_ACTION_NOACTION
       ELSE /\ last.ret \in Qualifying(score)
            /\ \A j \in Qualifying(score) :
                 actions_limits[j] <= actions_limits[last.ret]
    /\ \A s2 \in ScoreRange :
         s2 >= score => SelectedThreshold(s2) >= SelectedThreshold(score)

\* two slots qualify with different thresholds, the less severe has the
\* larger one and is selected
C7_Witness ==
  /\ last.op = "check_action"
  /\ passthrough_result = <<>>
  /\ actions_limits[METRIC_ACTION_REJECT] = 0
  /\ actions_limits[METRIC_ACTION_ADD_HEADER] = 5
  /\ score >= 5
  /\ last.ret = METRIC_ACTION_ADD_HEADER

\* C8: with a passthrough, check_action returns the action of the head; the
\* score stays when the head's target_score is NaN, becomes
\* min(target_score, score) for no-action and target_score otherwise.
C8_PassthroughVerdict ==
  [][(last'.op = "check_action" /\ passthrough_result # <<>>) =>
       LET pr == passthrough_result[1]
       IN /\ last'.ret = pr.action
          /\ score' = IF isnan(pr.target_score) THEN score
                      ELSE IF pr.action = METRIC_ACTION_NOACTION
                           THEN (IF pr.target_score < score
                                 THEN pr.target_score ELSE score)
                           ELSE pr.target_score]_vars

\* a no-action passthrough has lowered a larger accumulated score to its target
C8_Witness ==
  /\ last.op = "check_action"
  /\ passthrough_result # <<>>
  /\ passthrough_result[1].action = METRIC_ACTION_NOACTION
  /\ passthrough_result[1].target_score = 1
  /\ last.ret = METRIC_ACTION_NOACTION
  /\ hist.overridden
  /\ score = 1
  /\ SumScores(DOMAIN symbols) > 1

\* C9: after inserts and add_passthrough calls with no single-shot
\* replacement, the total score equals the sum of the scores of the symbols.
C9_ScoreIsSumOfSymbols ==
  (~hist.replaced /\ ~hist.overridden) => score = SumScores(DOMAIN symbols)

\* inserts were amplified and clipped by a group cap, a passthrough was added
C9_Witness ==
  /\ ~hist.replaced
  /\ ~hist.overridden
  /\ passthrough_result # <<>>
  /\ hist.ninserts >= 2
  /\ grow_factor = 2
  /\ "g2" \in DOMAIN sym_groups
  /\ sym_groups["g2"] = cfg_groups["g2"].max_score
  /\ score > 0

\* the score of group G before it has an entry is 0
GroupScore(gs, G) == IF G \in DOMAIN gs THEN gs[G] ELSE 0

\* C10: every insert of a symbol with a definition adds the same amount to
\* the score of each of its groups, the amount it adds to the total score.
C10_GroupsFollowScore ==
  [][(last'.op = "insert" /\ last'.ret # NULL /\ HasDef(last'.ret)) =>
       \A i \in 1..Len(cfg_symbols[last'.ret].groups) :
         LET G == cfg_symbols[last'.ret].groups[i]
         IN sym_groups'[G] - GroupScore(sym_groups, G) = score' - score]_vars

C12_OneParamKeepsOption ==
  [][\A symbol \in DOMAIN symbols :
       (IsOneParam(symbol) /\ symbols[symbol].has_options) =>
          /\ symbols'[symbol].options = symbols[symbol].options
          /\ symbols'[symbol].opts_head = symbols[symbol].opts_head
          /\ Len(symbols'[symbol].opts_head) <= 1]_vars

\* this step is an insert, without ENFORCE, of a symbol that has no definition
InsertsUnknown(symbol) ==
  /\ ~HasDef(symbol)
  /\ last'.ret = symbol
  /\ \E weight \in Weights, opt \in {NULL, "x"}, flags \in InsertFlags :
       /\ "ENFORCE" \notin flags
       /\ rspamd_task_insert_result_full(symbol, weight, opt, flags)

\* the symbol is recorded and counted; the score, the group scores and the
\* ledgers are what they were
RecordedOnly(symbol) ==
  /\ symbol \in DOMAIN symbols'
  /\ symbols'[symbol].nshots >= 1
  /\ score' = score
  /\ sym_groups' = sym_groups
  /\ UNCHANGED <<positive_score, negative_score, npositive, nnegative>>

\* C13 as stated: an insert without ENFORCE of a symbol that has no
\* definition records the symbol and leaves the score, the group scores and
\* the ledgers unchanged, for every weight and every task settings object.
C13_UnknownContributesZero ==
  [][\A symbol \in SymNames : InsertsUnknown(symbol) => RecordedOnly(symbol)]_vars

\* C13 amended: the same, for every weight, when the task settings hold no
\* value for the symbol.
C13_UnknownContributesZeroNoSettings ==
  [][\A symbol \in SymNames :
       (InsertsUnknown(symbol) /\ symbol \notin DOMAIN settings)
          => RecordedOnly(symbol)]_vars

\* a symbol without definition was inserted without ENFORCE into a task
\* without settings that already had a score
C13_Witness ==
  /\ settings = <<>>
  /\ last = [op |-> "insert", ret |-> "U"]
  /\ symbols["U"].score = 0
  /\ score # 0

\* C14: in every reachable state, an insert with a weight that is NaN or an
\* infinity gives the same metric result as the same insert with weight 0;
\* on a first hit it stores the symbol with score 0 and one shot and leaves
\* the score and the ledgers as they were.
C14_NonFiniteAsZero ==
  \A symbol \in SymNames, opt \in {NULL, "x"}, flags \in InsertFlags,
     weight \in NonFinite :
       LET m == insert_metric_result(MetricRes, symbol, weight, opt, flags,
                                     cfg_grow_factor, settings)
       IN /\ m = insert_metric_result(MetricRes, symbol, 0, opt, flags,
                                      cfg_grow_factor, settings)
          /\ symbol \notin DOMAIN symbols =>
               /\ m.symbols[symbol].score = 0
               /\ m.symbols[symbol].nshots = 1
               /\ m.score = score
               /\ m.positive_score = positive_score
               /\ m.negative_score = negative_score
               /\ m.npositive = npositive
               /\ m.nnegative = nnegative

\* the only insert so far had a non-finite weight and hit a symbol that has
\* a definition
C14_Witness ==
  /\ hist.sanitized
  /\ hist.ninserts = 1
  /\ \E symbol \in DOMAIN symbols :
       HasDef(symbol) /\ symbols[symbol].score = 0 /\ symbols[symbol].nshots = 1

\* C15: a check_action call changes nothing but the score, and not even the
\* score when there is no passthrough; a call that follows another call
\* returns the verdict of the first and leaves the score the first left.
C15_CheckActionIdempotent ==
  [][last'.op = "check_action" =>
       /\ UNCHANGED <<grow_factor, symbols, sym_groups, positive_score,
                      negative_score, npositive, nnegative, passthrough_result,
                      actions_limits>>
       /\ passthrough_result = <<>> => score' = score
       /\ last.op = "check_action" => (last'.ret = last.ret /\ score' = score)]_vars

\* check_action was called twice in a row with a passthrough that had
\* replaced the score
C15_Witness ==
  /\ last.op = "check_action"
  /\ hist.rechecked
  /\ hist.overridden
  /\ passthrough_result # <<>>

\* C16: an insert that applies a positive contribution while the stored
\* grow_factor g is above 0 leaves g * cfg.grow_factor in grow_factor.
C16_GrowFactorGeometric ==
  [][(/\ last'.op = "insert"
      /\ hist'.ninserts > hist.ninserts
      /\ grow_factor > 0
      /\ score' > score)
       => grow_factor' = grow_factor * cfg_grow_factor]_vars

\* C17: an insert that does not raise the score (its contribution is zero,
\* negative, or dropped by a group cap) leaves grow_factor as it was.
C17_GrowFactorKept ==
  [][(/\ last'.op = "insert"
      /\ hist'.ninserts > hist.ninserts
      /\ score' <= score)
       => grow_factor' = grow_factor]_vars

\* the symbols that have a definition with exactly one group, a capped one
SingleGroup ==
  {symbol \in SymNames :
     /\ HasDef(symbol)
     /\ Len(cfg_symbols[symbol].groups) = 1
     /\ cfg_groups[cfg_symbols[symbol].groups[1]].max_score > 0}

\* what the claim C18 says of a step that inserts `symbol` additively with
\* `weight`: w is the contribution proposed to the group, g the group's score
CapApplied(symbol, weight) ==
  LET G == cfg_symbols[symbol].groups[1]
      M == cfg_groups[G].max_score
      g == GroupScore(sym_groups, G)
      known == symbol \in DOMAIN symbols
      old == IF known THEN symbols[symbol] ELSE EmptySymbolResult
      base == BaseScore(symbol, weight, {}, settings)
      w == IF grow_factor # 0 /\ base > 0 THEN base * grow_factor ELSE base
      applied == IF w <= 0 THEN w ELSE MIN(w, M - g)
  IN IF w > 0 /\ g >= M
     THEN /\ score' = score
          /\ symbols'[symbol].score = old.score
          /\ sym_groups'[G] = g
          /\ grow_factor' = grow_factor
          /\ symbols'[symbol].nshots = old.nshots + 1
     ELSE /\ score' = score + applied
          /\ symbols'[symbol].score = old.score + applied
          /\ sym_groups'[G] = g + applied

\* C18: an additive insert of a symbol that is in exactly one capped group
\* applies min(w, M - g) while g < M, is dropped when g >= M (score, symbol
\* score, group score and grow_factor unchanged, nshots one more), and
\* applies a contribution w <= 0 in full.
C18_SingleGroupCap ==
  [][\A symbol \in SingleGroup, weight \in CapWeights, opt \in Opts \cup {NULL} :
       (/\ symbol \in DOMAIN symbols =>
             ~IsSingle(symbol, {}, symbols[symbol].nshots)
        /\ rspamd_task_insert_result_full(symbol, weight, opt, {}))
         => CapApplied(symbol, weight)]_vars

\* final_score is farther from 0 than the score of `symbol` and has its sign
LargerSameSign(symbol, final_score) ==
  /\ fabs(symbols[symbol].score) < fabs(final_score)
  /\ signbit(symbols[symbol].score) = signbit(final_score)

\* a positive difference meets a group of `symbol` that is at its cap
DroppedByCap(symbol, diff) ==
  /\ HasDef(symbol)
  /\ diff > 0
  /\ \E i \in 1..Len(cfg_symbols[symbol].groups) :
       LET G == cfg_symbols[symbol].groups[i]
       IN /\ cfg_groups[G].max_score > 0
          /\ GroupScore(sym_groups, G) >= cfg_groups[G].max_score

\* the insert left the score, the score of `symbol` and grow_factor alone
ScoresKept(symbol) ==
  /\ score' = score
  /\ symbols'[symbol].score = symbols[symbol].score
  /\ grow_factor' = grow_factor

\* C19 as stated: a single-shot repeat insert whose final_score is larger in
\* magnitude than the symbol's score and of the same sign makes final_score
\* the symbol's score; any other single-shot repeat insert leaves the score,
\* the symbol's score, the group scores and grow_factor unchanged.
C19_SingleShotReplaces ==
  [][\A symbol \in DOMAIN symbols, weight \in Weights, flags \in InsertFlags :
       (/\ last'.ret = symbol
        /\ IsSingle(symbol, flags, symbols[symbol].nshots)
        /\ rspamd_task_insert_result_full(symbol, weight, NULL, flags))
         => LET final_score == BaseScore(symbol, weight, flags, settings)
            IN IF LargerSameSign(symbol, final_score)
               THEN symbols'[symbol].score = final_score
               ELSE ScoresKept(symbol) /\ sym_groups' = sym_groups]_vars

\* C19 amended: the replacement happens unless the difference is positive and
\* is dropped by a group cap; then, too, the score, the symbol's score and
\* grow_factor are unchanged.
C19_SingleShotReplacesUnlessDropped ==
  [][\A symbol \in DOMAIN symbols, weight \in Weights, flags \in InsertFlags :
       (/\ last'.ret = symbol
        /\ IsSingle(symbol, flags, symbols[symbol].nshots)
        /\ rspamd_task_insert_result_full(symbol, weight, NULL, flags))
         => LET final_score == BaseScore(symbol, weight, flags, settings)
            IN IF LargerSameSign(symbol, final_score)
               THEN IF DroppedByCap(symbol, final_score - symbols[symbol].score)
                    THEN ScoresKept(symbol)
                    ELSE /\ symbols'[symbol].score = final_score
                         /\ fabs(symbols'[symbol].score) > fabs(symbols[symbol].score)
               ELSE ScoresKept(symbol) /\ sym_groups' = sym_groups]_vars

\* a single-shot insert replaced a symbol's score; the symbol inserted last
\* has been hit three times
C19_Witness ==
  /\ hist.replaced
  /\ last.op = "insert"
  /\ last.ret \in DOMAIN symbols
  /\ symbols[last.ret].nshots >= 3
  /\ symbols[last.ret].score # 0

\* the qualifying slots that have the largest threshold
TopSlots(sc) ==
  {i \in Qualifying(sc) :
     \A j \in Qualifying(sc) : actions_limits[j] <= actions_limits[i]}

\* C20 as stated: with no passthrough and two or more qualifying slots at the
\* largest threshold, check_action returns the last of them in the order of
\* the iteration (the one with the largest index).
C20_TieSelectsLast ==
  (last.op = "check_action" /\ passthrough_result = <<>>
     /\ Cardinality(TopSlots(score)) >= 2) =>
    \A i \in TopSlots(score) : i <= last.ret

\* C20 amended: it returns the first of them in the order of the iteration
\* (the one with the smallest index, the most severe).
C20_TieSelectsFirst ==
  (last.op = "check_action" /\ passthrough_result = <<>>
     /\ Cardinality(TopSlots(score)) >= 2) =>
    /\ last.ret \in TopSlots(score)
    /\ \A i \in TopSlots(score) : last.ret <= i

\* reject and add-header have the same threshold, the score has reached it
\* and reject is returned
C20_Witness ==
  /\ last.op = "check_action"
  /\ last.ret = METRIC_ACTION_REJECT
  /\ passthrough_result = <<>>
  /\ actions_limits[METRIC_ACTION_REJECT] = 5
  /\ actions_limits[METRIC_ACTION_ADD_HEADER] = 5
  /\ score >= 5

====
